---- MODULE Spec2Model ----
(***************************************************************************)
(* Model of homeassistant/components/google_assistant/smart_home.py:      *)
(* the capability map MAPPING_COMPONENT and the three translation         *)
(* functions entity_to_device, query_device and determine_service.        *)
(*                                                                         *)
(* Python values are tagged records (PyNone, PyInt, PyBool, PyStr,         *)
(* PyList, PyFloat); a dict is a function whose DOMAIN is its key set; a   *)
(* call either returns (Return) or raises (Raise).                         *)
(*                                                                         *)
(* A float is an IEEE 754 double: a finite one is sign * mantissa *       *)
(* 2^exponent with the mantissa an odd natural number below 2^53 (0 for    *)
(* the two zeros) held as a sequence of 15-bit limbs, least significant    *)
(* first; the others are the two infinities and NaN.  / and * round to     *)
(* the nearest double, ties to even, as the hardware does: to a multiple   *)
(* of 2^-1074 below 2^-1022 and to an infinity from 2^1024 - 2^970 on.     *)
(* An int is a TLA+ integer, so it stays below 2^31.                       *)
(***************************************************************************)
EXTENDS Integers, Sequences, FiniteSets, TLC

VARIABLES
    MAPPING_COMPONENT,  \* the module-level capability map (a mutable dict)
    registry,           \* the entity snapshots held by the dispatcher
    command,            \* the command of the request being served
    params,             \* the parameter bag of the request being served
    ret,                \* the last call: function, entity index, outcome, warnings
    log                 \* what _LOGGER.warning has received so far

vars == <<MAPPING_COMPONENT, registry, command, params, ret, log>>

(***************************************************************************)
(* Bounds of the model.                                                    *)
(***************************************************************************)
LevelBits == 3      \* volume levels are the floats k / 2^LevelBits
LevelOver == 2      \* levels range from -LevelOver/2^LevelBits to 1 + LevelOver/2^LevelBits
MaxFeatures == 31   \* supported_features bitmasks range over 0..MaxFeatures
ExtraPercent == 3   \* params.brightness ranges over 0..100+ExtraPercent
MaxLog == 2         \* entity_to_device is called while fewer warnings are logged

(***************************************************************************)
(* Python values.                                                          *)
(***************************************************************************)
PyNone == [t |-> "none"]
PyInt(n) == [t |-> "int", v |-> n]
PyBool(b) == [t |-> "bool", v |-> b]
PyStr(s) == [t |-> "str", v |-> s]
PyList(l) == [t |-> "list", v |-> l]
PyDict(items) == [t |-> "dict", v |-> items]

Abs(n) == IF n < 0 THEN -n ELSE n
Max(a, b) == IF a < b THEN b ELSE a

(***************************************************************************)
(* Natural numbers of any size: sequences of limbs in 0 .. Limb - 1, the   *)
(* least significant first and the last one not 0.                         *)
(***************************************************************************)
LimbBits == 15
Limb == 2 ^ LimbBits

RECURSIVE BigTrim(_)
BigTrim(a) ==
    IF a = <<>> THEN <<>>
    ELSE IF a[Len(a)] = 0 THEN BigTrim(SubSeq(a, 1, Len(a) - 1))
    ELSE a

RECURSIVE BigOfInt(_)
BigOfInt(n) == IF n = 0 THEN <<>> ELSE <<n % Limb>> \o BigOfInt(n \div Limb)

RECURSIVE BigToInt(_)
BigToInt(a) == IF a = <<>> THEN 0 ELSE Head(a) + Limb * BigToInt(Tail(a))

RECURSIVE BigMulCarry(_, _, _)
BigMulCarry(a, k, carry) ==
    IF a = <<>> THEN BigOfInt(carry)
    ELSE LET d == Head(a) * k + carry
         IN  <<d % Limb>> \o BigMulCarry(Tail(a), k, d \div Limb)

\* a * k for 0 <= k < Limb
BigMulSmall(a, k) == BigTrim(BigMulCarry(a, k, 0))

RECURSIVE BigDivLimbs(_, _)
\* long division by 0 < k < Limb, from the most significant limb down
BigDivLimbs(a, k) ==
    IF a = <<>> THEN [q |-> <<>>, r |-> 0]
    ELSE LET high == BigDivLimbs(Tail(a), k)
             cur == high.r * Limb + Head(a)
         IN  [q |-> <<cur \div k>> \o high.q, r |-> cur % k]

\* quotient and remainder of a by 0 < k < Limb
BigDivSmall(a, k) ==
    LET d == BigDivLimbs(a, k) IN [q |-> BigTrim(d.q), r |-> d.r]

RECURSIVE BitLen(_)
BitLen(n) == IF n = 0 THEN 0 ELSE 1 + BitLen(n \div 2)

BigBitLen(a) ==
    IF a = <<>> THEN 0 ELSE LimbBits * (Len(a) - 1) + BitLen(a[Len(a)])

BigOdd(a) == a # <<>> /\ Head(a) % 2 = 1

RECURSIVE BigInc(_)
\* a + 1
BigInc(a) ==
    IF a = <<>> THEN <<1>>
    ELSE IF Head(a) + 1 < Limb THEN <<Head(a) + 1>> \o Tail(a)
    ELSE <<0>> \o BigInc(Tail(a))

\* a shifted right by r >= 0 bits; sticky: a 1 bit was shifted out
BigShr(a, r) ==
    LET whole == r \div LimbBits
        dropped == SubSeq(a, 1, IF whole < Len(a) THEN whole ELSE Len(a))
        d == BigDivSmall(SubSeq(a, whole + 1, Len(a)), 2 ^ (r % LimbBits))
    IN  [q |-> d.q,
         sticky |-> d.r # 0 \/ \E i \in DOMAIN dropped : dropped[i] # 0]

\* a shifted right by r bits and rounded to nearest, ties to even, given
\* that the bits below a are (sticky) or are not all 0
BigShrRound(a, r, sticky) ==
    IF r = 0 THEN a
    ELSE LET low == BigShr(a, r - 1)
             q == BigShr(low.q, 1).q
         IN  IF BigOdd(low.q) /\ (sticky \/ low.sticky \/ BigOdd(q))
             THEN BigInc(q) ELSE q

(***************************************************************************)
(* Floats.                                                                 *)
(***************************************************************************)
MantissaBits == 53      \* bits of a double's mantissa
MinExponent == -1074    \* 2^MinExponent is the smallest positive double
MaxExponent == 1024     \* every finite double is below 2^MaxExponent

\* 0.0 (s = 1) and -0.0 (s = -1)
FloatZero(s) == [t |-> "float", k |-> "finite", s |-> s, m |-> <<>>, e |-> 0]
\* inf (s = 1) and -inf (s = -1)
FloatInf(s) == [t |-> "float", k |-> "inf", s |-> s, m |-> <<>>, e |-> 0]
\* nan
FloatNan == [t |-> "float", k |-> "nan", s |-> 1, m |-> <<>>, e |-> 0]

RECURSIVE MakeFloat(_, _, _)
\* the float s * m * 2^e, a double, with its mantissa made odd
MakeFloat(s, m, e) ==
    IF m = <<>> THEN FloatZero(s)
    ELSE IF Head(m) = 0 THEN MakeFloat(s, Tail(m), e + LimbBits)
    ELSE IF Head(m) % 2 = 0 THEN MakeFloat(s, BigDivSmall(m, 2).q, e + 1)
    ELSE [t |-> "float", k |-> "finite", s |-> s, m |-> m, e |-> e]

\* the double nearest to s * q * 2^e, the discarded part of q being
\* (sticky) or not being nonzero; sticky only with q of more than
\* MantissaBits bits.  The bits kept are the leading MantissaBits ones,
\* fewer when the last of them would lie below 2^MinExponent.
RoundToDouble(s, q, sticky, e) ==
    LET r == Max(BigBitLen(q) - MantissaBits, MinExponent - e)
        kept == IF r > 0 THEN BigShrRound(q, r, sticky) ELSE q
        exp == IF r > 0 THEN e + r ELSE e
    IN  IF BigBitLen(kept) + exp > MaxExponent THEN FloatInf(s)
        ELSE MakeFloat(s, kept, exp)

\* the double nearest to s * m * 2^e / k for 0 < k < Limb
DivToDouble(s, m, k, e) ==
    IF m = <<>> THEN FloatZero(s)
    ELSE LET d == BigDivSmall(<<0, 0, 0, 0, 0>> \o m, k)
         IN  RoundToDouble(s, d.q, d.r # 0, e - 5 * LimbBits)

\* the float n / d of two ints, 0 < d < Limb
PyFloat(n, d) == DivToDouble(IF n < 0 THEN -1 ELSE 1, BigOfInt(Abs(n)), d, 0)

Return(v) == [t |-> "return", v |-> v]
Raise(e) == [t |-> "raise", v |-> e]

\* bool(x)
Truthy(x) ==
    CASE x.t = "none" -> FALSE
      [] x.t = "int" -> x.v # 0
      [] x.t = "bool" -> x.v
      [] x.t = "str" -> x.v # ""
      [] x.t = "list" -> Len(x.v) > 0
      [] x.t = "dict" -> Len(x.v) > 0
      [] x.t = "float" -> x.k # "finite" \/ x.m # <<>>

\* a or b
PyOr(a, b) == IF Truthy(a) THEN a ELSE b

\* d.get(k, default)
DictGet(d, k, default) == IF k \in DOMAIN d THEN d[k] ELSE default

\* the operands /, * and min accept beside a number: bool is a subclass of int
IsNumber(x) == x.t \in {"int", "bool", "float"}

\* the int an int or a bool stands for
IntOf(x) == IF x.t = "bool" THEN (IF x.v THEN 1 ELSE 0) ELSE x.v

\* x / k for a number x and an int literal 0 < k < Limb: always a float
TrueDiv(x, k) ==
    IF x.t # "float" THEN PyFloat(IntOf(x), k)
    ELSE IF x.k = "finite" THEN DivToDouble(x.s, x.m, k, x.e)
    ELSE x

\* x * k for a number x and an int literal 0 < k < Limb: an int for an int
\* or a bool, the nearest double for a float
FloatMul(x, k) ==
    IF x.t # "float" THEN PyInt(IntOf(x) * k)
    ELSE IF x.k = "finite" THEN RoundToDouble(x.s, BigMulSmall(x.m, k), FALSE, x.e)
    ELSE x

\* x < 1.0: false for nan
LessThanOne(x) ==
    IF x.t # "float" THEN IntOf(x) < 1
    ELSE IF x.k = "nan" THEN FALSE
    ELSE IF x.k = "inf" THEN x.s < 0
    ELSE x.s < 0 \/ x.m = <<>> \/ BigBitLen(x.m) + x.e <= 0

\* min(1.0, x): the first argument unless the second is smaller
Min1(x) == IF LessThanOne(x) THEN x ELSE PyFloat(1, 1)

\* what int() and round() raise for a float that is no number
NotFinite(x) == Raise(IF x.k = "inf" THEN "OverflowError" ELSE "ValueError")

\* int(x): truncation toward zero
PyIntOf(x) ==
    IF x.t # "float" THEN Return(PyInt(IntOf(x)))
    ELSE IF x.k # "finite" THEN NotFinite(x)
    ELSE IF x.e >= 0 THEN Return(PyInt(x.s * BigToInt(x.m) * 2 ^ x.e))
    ELSE Return(PyInt(x.s * BigToInt(BigShr(x.m, -x.e).q)))

\* round(x) with one argument: to the nearest integer, ties to even
PyRound(x) ==
    IF x.t # "float" THEN Return(PyInt(IntOf(x)))
    ELSE IF x.k # "finite" THEN NotFinite(x)
    ELSE IF x.e >= 0 THEN Return(PyInt(x.s * BigToInt(x.m) * 2 ^ x.e))
    ELSE Return(PyInt(x.s * BigToInt(BigShrRound(x.m, -x.e, FALSE))))

RECURSIVE BitAndNat(_, _)
\* a & b on non-negative ints
BitAndNat(a, b) ==
    IF a = 0 \/ b = 0 THEN 0
    ELSE (a % 2) * (b % 2) + 2 * BitAndNat(a \div 2, b \div 2)

\* a & b: a negative int is the two's complement of ~x = -x - 1
BitAnd(a, b) ==
    IF a >= 0 /\ b >= 0 THEN BitAndNat(a, b)
    ELSE IF a >= 0 THEN a - BitAndNat(a, -b - 1)
    ELSE IF b >= 0 THEN b - BitAndNat(b, -a - 1)
    ELSE -1 - ((-a - 1) + (-b - 1) - BitAndNat(-a - 1, -b - 1))

(***************************************************************************)
(* Imported names.                                                         *)
(***************************************************************************)
ATTR_SUPPORTED_FEATURES == "supported_features"
ATTR_ENTITY_ID == "entity_id"
CONF_FRIENDLY_NAME == "friendly_name"
STATE_OFF == "off"
SERVICE_TURN_OFF == "turn_off"
SERVICE_TURN_ON == "turn_on"
ATTR_GOOGLE_ASSISTANT_NAME == "google_assistant_name"
COMMAND_BRIGHTNESS == "action.devices.commands.BrightnessAbsolute"
COMMAND_ONOFF == "action.devices.commands.OnOff"
PREFIX_TRAITS == "action.devices.traits."
PREFIX_TYPES == "action.devices.types."
CONF_ALIASES == "aliases"
ATTR_BRIGHTNESS == "brightness"
ATTR_MEDIA_VOLUME_LEVEL == "volume_level"
SERVICE_VOLUME_SET == "volume_set"
SERVICE_SET_COVER_POSITION == "set_cover_position"
SERVICE_OPEN_COVER == "open_cover"
SERVICE_CLOSE_COVER == "close_cover"
GROUP_DOMAIN == "group"
SWITCH_DOMAIN == "switch"
FAN_DOMAIN == "fan"
LIGHT_DOMAIN == "light"
COVER_DOMAIN == "cover"
MEDIA_PLAYER_DOMAIN == "media_player"
SUPPORT_BRIGHTNESS == 1
SUPPORT_COLOR_TEMP == 2
SUPPORT_RGB_COLOR == 16
SUPPORT_SET_POSITION == 4
SUPPORT_VOLUME_SET == 4

(***************************************************************************)
(* MAPPING_COMPONENT as the module defines it: domain -> [actions schema,  *)
(* command, optional features], the features a dict in insertion order.    *)
(***************************************************************************)
CapabilityMap ==
    (GROUP_DOMAIN :> <<"SCENE", "ActivateScene", PyNone>>)
    @@ (SWITCH_DOMAIN :> <<"SWITCH", "OnOff", PyNone>>)
    @@ (FAN_DOMAIN :> <<"SWITCH", "OnOff", PyNone>>)
    @@ (LIGHT_DOMAIN :> <<"LIGHT", "OnOff",
            PyDict(<< <<SUPPORT_BRIGHTNESS, "Brightness">>,
                      <<SUPPORT_RGB_COLOR, "ColorSpectrum">>,
                      <<SUPPORT_COLOR_TEMP, "ColorTemperature">> >>)>>)
    @@ (COVER_DOMAIN :> <<"LIGHT", "OnOff",
            PyDict(<< <<SUPPORT_SET_POSITION, "Brightness">> >>)>>)
    @@ (MEDIA_PLAYER_DOMAIN :> <<"LIGHT", "OnOff",
            PyDict(<< <<SUPPORT_VOLUME_SET, "Brightness">> >>)>>)

(***************************************************************************)
(* Entity ids.  An id is the sequence of its pieces: "." and the maximal   *)
(* runs of other characters, so "light.kitchen" is <<"light",".","kitchen">>*)
(***************************************************************************)
RECURSIVE FirstPiece(_)
\* entity_id.split('.')[0]: the text before the first "."
FirstPiece(id) ==
    IF id = <<>> \/ Head(id) = "." THEN ""
    ELSE Head(id) \o FirstPiece(Tail(id))

\* entity.domain
EntityDomain(entity) == FirstPiece(entity.entity_id)

(***************************************************************************)
(* entity_to_device                                                        *)
(***************************************************************************)
\* a slip: the friendly name preferred to the assistant name
DisplayNameFriendlyFirst(attributes) ==
    PyOr(DictGet(attributes, CONF_FRIENDLY_NAME, PyNone),
         DictGet(attributes, ATTR_GOOGLE_ASSISTANT_NAME, PyNone))

\* device['name']['name']: the assistant name or else the friendly name
DisplayName(attributes) ==
    PyOr(DictGet(attributes, ATTR_GOOGLE_ASSISTANT_NAME, PyNone),
         DictGet(attributes, CONF_FRIENDLY_NAME, PyNone))

\* device['name'] once the name and the aliases are handled
DeviceName(attributes) ==
    LET aliases == DictGet(attributes, CONF_ALIASES, PyNone)
        name == "name" :> DisplayName(attributes)
    IN  IF aliases.t = "list" THEN name @@ ("nicknames" :> aliases) ELSE name

\* what the aliases branch sends to _LOGGER.warning
AliasWarnings(attributes) ==
    LET aliases == DictGet(attributes, CONF_ALIASES, PyNone)
    IN  IF aliases.t = "list" THEN <<>> ELSE <<CONF_ALIASES \o " must be a list">>

\* a slip: the expression read as feature & (supported > 0)
HasFeatureComparedFirst(feature, supported) ==
    BitAnd(feature, IF supported > 0 THEN 1 ELSE 0) > 0

\* feature & supported > 0
HasFeature(feature, supported) == BitAnd(feature, supported) > 0

RECURSIVE FeatureTraits(_, _)
\* the traits appended by the loop over class_data[2].items()
FeatureTraits(items, supported) ==
    IF items = <<>> THEN <<>>
    ELSE (IF HasFeature(Head(items)[1], supported)
          THEN <<PREFIX_TRAITS \o Head(items)[2]>> ELSE <<>>)
         \o FeatureTraits(Tail(items), supported)

\* the call with the module-level map it reads passed as mapping
entity_to_device(mapping, entity) ==
    LET domain == EntityDomain(entity) IN
    IF domain \notin DOMAIN mapping
    THEN [value |-> Return(PyNone), warnings |-> <<>>]
    ELSE
        LET class_data == mapping[domain]
            warnings == AliasWarnings(entity.attributes)
            supported == DictGet(entity.attributes, ATTR_SUPPORTED_FEATURES, PyInt(0))
        IN  IF Truthy(class_data[3]) /\ supported.t \notin {"int", "bool"}
            THEN [value |-> Raise("TypeError"), warnings |-> warnings]
            ELSE [value |-> Return(
                      [id |-> entity.entity_id,
                       name |-> DeviceName(entity.attributes),
                       traits |-> <<PREFIX_TRAITS \o class_data[2]>>
                                  \o (IF Truthy(class_data[3])
                                      THEN FeatureTraits(class_data[3].v, IntOf(supported))
                                      ELSE <<>>),
                       willReportState |-> FALSE,
                       type |-> PREFIX_TYPES \o class_data[1]]),
                  warnings |-> warnings]

(***************************************************************************)
(* query_device                                                            *)
(***************************************************************************)
\* 255 if final_state else 0
DefaultBrightness(final_state) == PyInt(IF final_state THEN 255 ELSE 0)

\* 1.0 if final_state else 0.0
DefaultLevel(final_state) == IF final_state THEN PyFloat(1, 1) ELSE FloatZero(1)

\* a slip: the level not clamped to 1.0
VolumeToBrightnessUnclamped(level) == PyRound(FloatMul(level, 255))

\* round(min(1.0, level) * 255)
VolumeToBrightness(level) == PyRound(FloatMul(Min1(level), 255))

\* a slip: the percent rounded instead of truncated
BrightnessToPercentRounded(final_brightness) ==
    PyRound(FloatMul(TrueDiv(final_brightness, 255), 100))

\* int(100 * (final_brightness / 255))
BrightnessToPercent(final_brightness) ==
    PyIntOf(FloatMul(TrueDiv(final_brightness, 255), 100))

\* final_brightness before the None guard; min() raises TypeError and
\* round() OverflowError
ResolvedBrightness(entity, final_state) ==
    IF EntityDomain(entity) = MEDIA_PLAYER_DOMAIN
    THEN LET level == DictGet(entity.attributes, ATTR_MEDIA_VOLUME_LEVEL,
                              DefaultLevel(final_state))
         IN  IF IsNumber(level) THEN VolumeToBrightness(level)
             ELSE Raise("TypeError")
    ELSE Return(DictGet(entity.attributes, ATTR_BRIGHTNESS,
                        DefaultBrightness(final_state)))

query_device(entity) ==
    LET final_state == entity.state # STATE_OFF
        resolved == ResolvedBrightness(entity, final_state)
    IN  IF resolved.t = "raise" THEN resolved
        ELSE
            LET final_brightness ==
                    IF resolved.v = PyNone THEN DefaultBrightness(final_state)
                    ELSE resolved.v
                percent == BrightnessToPercent(final_brightness)
            IN  IF ~IsNumber(final_brightness) THEN Raise("TypeError")
                ELSE IF percent.t = "raise" THEN percent
                ELSE Return([on |-> final_state,
                             online |-> TRUE,
                             brightness |-> percent.v])

(***************************************************************************)
(* determine_service                                                       *)
(***************************************************************************)
\* int(brightness / 100 * 255)
PercentToBrightness(brightness) ==
    PyIntOf(FloatMul(TrueDiv(brightness, 100), 255))

\* a slip: params.get('on') tested for truth instead of identity with True
OnIsTruthy(prm) == Truthy(DictGet(prm, "on", PyNone))

\* params.get('on') is True
OnIsTrue(prm) == DictGet(prm, "on", PyNone) = PyBool(TRUE)

determine_service(entity_id, cmd, prm) ==
    LET domain == FirstPiece(entity_id)
        service_data == ATTR_ENTITY_ID :> entity_id
    IN  IF domain = "media_player" /\ cmd = COMMAND_BRIGHTNESS
        THEN LET brightness == DictGet(prm, "brightness", PyInt(0))
             IN  IF ~IsNumber(brightness) THEN Raise("TypeError")
                 ELSE Return(<<SERVICE_VOLUME_SET,
                               service_data @@ ("volume" :> TrueDiv(brightness, 100))>>)
        ELSE IF domain = "cover" /\ cmd = COMMAND_BRIGHTNESS
        THEN Return(<<SERVICE_SET_COVER_POSITION,
                      service_data @@ ("position" :> DictGet(prm, "brightness", PyInt(0)))>>)
        ELSE IF domain = "cover" /\ cmd = COMMAND_ONOFF
        THEN IF OnIsTrue(prm)
             THEN Return(<<SERVICE_OPEN_COVER, service_data>>)
             ELSE Return(<<SERVICE_CLOSE_COVER, service_data>>)
        ELSE IF cmd = COMMAND_BRIGHTNESS
        THEN LET brightness == DictGet(prm, "brightness", PyNone)
                 scaled == PercentToBrightness(brightness)
             IN  IF ~IsNumber(brightness) THEN Raise("TypeError")
                 ELSE IF scaled.t = "raise" THEN scaled
                 ELSE Return(<<SERVICE_TURN_ON,
                               service_data @@ ("brightness" :> scaled.v)>>)
        ELSE IF COMMAND_ONOFF = cmd /\ OnIsTrue(prm)
        THEN Return(<<SERVICE_TURN_ON, service_data>>)
        ELSE Return(<<SERVICE_TURN_OFF, service_data>>)

(***************************************************************************)
(* The inputs: entity snapshots as the registry supplies them and requests *)
(* as the dispatcher receives them.                                        *)
(***************************************************************************)
Entity(id, state, attributes) ==
    [entity_id |-> id, state |-> state, attributes |-> attributes]

\* the dicts that hold key k with a value of V, or do not hold it
Opt(k, V) == {<<>>} \cup {k :> v : v \in V}

Domains == DOMAIN CapabilityMap \cup {"sensor"}
SimpleIds == {<<d, ".", "x">> : d \in Domains}
DottedIds == {<<"light", ".", "media_player", ".", "cover">>,
              <<"sensor", ".", "cover", ".", "light">>}
States == {"on", STATE_OFF, "unavailable"}
Commands == {COMMAND_ONOFF, COMMAND_BRIGHTNESS, "action.devices.commands.ColorAbsolute"}

\* levels at the edges: a negative one that rounds to 0, a negative tie, one
\* whose double product with 255 is a tie the exact product is not, and the
\* infinities
EdgeLevels ==
    {PyFloat(-1, 1024), PyFloat(-3, 2), PyFloat(11, 510), FloatInf(1), FloatInf(-1)}
Levels ==
    {PyFloat(k, 2 ^ LevelBits) : k \in (-LevelOver) .. (2 ^ LevelBits + LevelOver)}
        \cup EdgeLevels
Brightnesses == {PyInt(n) : n \in 0 .. 255}
Percents == {PyInt(n) : n \in 0 .. (100 + ExtraPercent)}
Features == {PyInt(n) : n \in 0 .. MaxFeatures}

QueryEntities ==
    {Entity(id, s, b) :
        id \in SimpleIds, s \in States,
        b \in Opt(ATTR_BRIGHTNESS, {PyNone} \cup Brightnesses)}
    \cup
    {Entity(id, s, b @@ v) :
        id \in {<<MEDIA_PLAYER_DOMAIN, ".", "x">>, <<LIGHT_DOMAIN, ".", "x">>},
        s \in States,
        b \in Opt(ATTR_BRIGHTNESS, {PyNone, PyInt(0), PyInt(128)}),
        v \in Opt(ATTR_MEDIA_VOLUME_LEVEL, {PyNone} \cup Levels)}

BuildEntities ==
    {Entity(id, "on", f @@ a) :
        id \in SimpleIds,
        f \in Opt(ATTR_SUPPORTED_FEATURES, Features),
        a \in Opt(CONF_ALIASES, {PyList(<<"a", "b">>)})}
    \cup
    {Entity(id, "on", g @@ n @@ a @@ f) :
        id \in SimpleIds,
        g \in Opt(ATTR_GOOGLE_ASSISTANT_NAME, {PyNone, PyStr(""), PyStr("Lamp")}),
        n \in Opt(CONF_FRIENDLY_NAME, {PyStr(""), PyStr("Kitchen Light")}),
        a \in Opt(CONF_ALIASES, {PyNone, PyList(<<>>), PyList(<<"a", "b">>), PyStr("a")}),
        f \in Opt(ATTR_SUPPORTED_FEATURES, {PyInt(1)})}

ExecParams ==
    {o @@ b :
        o \in Opt("on", {PyBool(TRUE)}),
        b \in Opt("brightness", Percents)}
    \cup
    {o @@ b :
        o \in Opt("on", {PyBool(TRUE), PyBool(FALSE), PyInt(1)}),
        b \in Opt("brightness", {PyInt(50)})}

PairEntities ==
    {Entity(<<LIGHT_DOMAIN, ".", "x">>, "on", ATTR_BRIGHTNESS :> PyInt(128)),
     Entity(<<LIGHT_DOMAIN, ".", "x">>, STATE_OFF, CONF_ALIASES :> PyList(<<"a", "b">>)),
     Entity(<<MEDIA_PLAYER_DOMAIN, ".", "x">>, "on", ATTR_MEDIA_VOLUME_LEVEL :> PyFloat(1, 2)),
     Entity(<<COVER_DOMAIN, ".", "x">>, "on", ATTR_SUPPORTED_FEATURES :> PyInt(4)),
     Entity(<<"sensor", ".", "x">>, "on", <<>>)}

NoCall == [op |-> "none", idx |-> 0, value |-> PyNone, warnings |-> <<>>]

\* one entity and an on/off request without parameters
InitOne(entities) ==
    /\ registry \in {<<e>> : e \in entities}
    /\ command = COMMAND_ONOFF
    /\ params = <<>>

\* one bare entity and any request
InitExec ==
    /\ registry \in {<<Entity(id, "on", <<>>)>> : id \in SimpleIds \cup DottedIds}
    /\ command \in Commands
    /\ params \in ExecParams

\* two entities, the same or distinct, and a brightness request
InitPair ==
    /\ registry \in {<<e1, e2>> : e1 \in PairEntities, e2 \in PairEntities}
    /\ command \in {COMMAND_ONOFF, COMMAND_BRIGHTNESS}
    /\ params \in {<<>>, ("on" :> PyBool(TRUE)) @@ ("brightness" :> PyInt(50))}

Init ==
    /\ MAPPING_COMPONENT = CapabilityMap
    /\ ret = NoCall
    /\ log = <<>>
    /\ \/ InitOne(QueryEntities)
       \/ InitOne(BuildEntities)
       \/ InitExec
       \/ InitPair

(***************************************************************************)
(* The calls.  Each is one synchronous call of a function on an entity of  *)
(* the registry; none of the three assigns to the entity or to the map.    *)
(***************************************************************************)
\* a slip: the aliases popped from the entity's attributes instead of read
EntityToDevicePopsAliases ==
    \E i \in DOMAIN registry :
        /\ Len(log) < MaxLog
        /\ LET r == entity_to_device(MAPPING_COMPONENT, registry[i])
               attributes == registry[i].attributes
           IN  /\ ret' = [op |-> "entity_to_device", idx |-> i,
                          value |-> r.value, warnings |-> r.warnings]
               /\ log' = log \o r.warnings
               /\ registry' = [registry EXCEPT ![i].attributes =
                      [k \in DOMAIN attributes \ {CONF_ALIASES} |-> attributes[k]]]
        /\ UNCHANGED <<MAPPING_COMPONENT, command, params>>

EntityToDevice ==
    \E i \in DOMAIN registry :
        /\ Len(log) < MaxLog
        /\ LET r == entity_to_device(MAPPING_COMPONENT, registry[i])
           IN  /\ ret' = [op |-> "entity_to_device", idx |-> i,
                          value |-> r.value, warnings |-> r.warnings]
               /\ log' = log \o r.warnings
        /\ UNCHANGED <<MAPPING_COMPONENT, registry, command, params>>

QueryDevice ==
    \E i \in DOMAIN registry :
        /\ ret' = [op |-> "query_device", idx |-> i,
                   value |-> query_device(registry[i]), warnings |-> <<>>]
        /\ UNCHANGED <<MAPPING_COMPONENT, registry, command, params, log>>

DetermineService ==
    \E i \in DOMAIN registry :
        /\ ret' = [op |-> "determine_service", idx |-> i,
                   value |-> determine_service(registry[i].entity_id, command, params),
                   warnings |-> <<>>]
        /\ UNCHANGED <<MAPPING_COMPONENT, registry, command, params, log>>

Next ==
    \/ EntityToDevice
    \/ QueryDevice
    \/ DetermineService

Spec == Init /\ [][Next]_vars

(***************************************************************************)
(* The claims.  ret holds the last call; the entity it was made on is      *)
(* registry[ret.idx] and the request is (command, params).                 *)
(***************************************************************************)
CalledEntity == registry[ret.idx]
CalledAttributes == CalledEntity.attributes

\* the text of an id before its first "." (ids are sequences of pieces)
TextBeforeDot(id) == IF id = <<>> \/ Head(id) = "." THEN "" ELSE Head(id)
CalledDomain == TextBeforeDot(CalledEntity.entity_id)

Returned(op) == ret.op = op /\ ret.value.t = "return"
Has(d, k) == k \in DOMAIN d
HasNumber(d, k) == Has(d, k) /\ d[k].t \in {"int", "float"}

\* n/d rounded to the nearest integer, halves upward (n >= 0, d > 0)
Nearest(n, d) == (2 * n + d) \div (2 * d)

ParamOnIsTrue == Has(params, "on") /\ params["on"] = PyBool(TRUE)

\* C1: whenever determine_service returns, the service and the keys of args
\* are those of the first matching rule of the ordered list (1)..(6), the
\* domain being the text of entityId before the first ".", and args holds
\* entityId unchanged.
C1_FirstMatchingRule ==
    Returned("determine_service") =>
        LET service == ret.value.v[1]
            args == ret.value.v[2]
            id == CalledEntity.entity_id
            domain == TextBeforeDot(id)
            rule ==
                IF domain = "media_player" /\ command = COMMAND_BRIGHTNESS
                THEN <<"volume_set", {"entity_id", "volume"}>>
                ELSE IF domain = "cover" /\ command = COMMAND_BRIGHTNESS
                THEN <<"set_cover_position", {"entity_id", "position"}>>
                ELSE IF domain = "cover" /\ command = COMMAND_ONOFF
                THEN <<IF ParamOnIsTrue THEN "open_cover" ELSE "close_cover",
                       {"entity_id"}>>
                ELSE IF command = COMMAND_BRIGHTNESS
                THEN <<"turn_on", {"entity_id", "brightness"}>>
                ELSE IF command = COMMAND_ONOFF /\ ParamOnIsTrue
                THEN <<"turn_on", {"entity_id"}>>
                ELSE <<"turn_off", {"entity_id"}>>
        IN  /\ service = rule[1]
            /\ DOMAIN args = rule[2]
            /\ args["entity_id"] = id

\* C1 witness: an unrecognized command on a cover fell through to turn_off
C1_Witness ==
    /\ Returned("determine_service")
    /\ CalledDomain = "cover"
    /\ command \notin {COMMAND_ONOFF, COMMAND_BRIGHTNESS}
    /\ ret.value.v[1] = "turn_off"

\* C2: a BRIGHTNESS command with params.brightness = p in 0..100 on a domain
\* other than media_player and cover returns turn_on with
\* args.brightness = round(p / 100 * 255), an integer in 0..255.
C2_BrightnessRounded ==
    ( /\ ret.op = "determine_service"
      /\ command = COMMAND_BRIGHTNESS
      /\ CalledDomain \notin {"media_player", "cover"}
      /\ Has(params, "brightness")
      /\ params["brightness"].t = "int"
      /\ params["brightness"].v \in 0 .. 100 )
    => LET p == params["brightness"].v
           expected == PyInt(Nearest(p * 255, 100))
       IN  /\ Returned("determine_service")
           /\ ret.value.v[1] = "turn_on"
           /\ ret.value.v[2]["brightness"] = expected
           /\ expected.v \in 0 .. 255

\* C3: determine_service never raises, whatever the entityId, the command
\* and the parameter bag.
C3_DetermineServiceTotal ==
    ret.op = "determine_service" => ret.value.t = "return"

\* C4: query_device never fails when the brightness and volume-level
\* attributes are each absent, null or a number; a null value is replaced by
\* the default 255-if-on-else-0.
C4_QueryNeverFails ==
    ( /\ ret.op = "query_device"
      /\ \A k \in {ATTR_BRIGHTNESS, ATTR_MEDIA_VOLUME_LEVEL} :
            Has(CalledAttributes, k) =>
                CalledAttributes[k].t \in {"none", "int", "float"} )
    => /\ ret.value.t = "return"
       /\ ( /\ CalledDomain = "media_player"
            /\ Has(CalledAttributes, ATTR_MEDIA_VOLUME_LEVEL)
            /\ CalledAttributes[ATTR_MEDIA_VOLUME_LEVEL] = PyNone )
          => ret.value.v.brightness =
                PyInt(IF CalledEntity.state # "off" THEN 100 ELSE 0)

\* C5: off the media_player domain query_device returns on = (state # "off"),
\* online = true and brightness = floor(100 * b / 255), b the brightness
\* attribute when present and non-null and else 255 if on else 0; b in 0..255
\* gives 0..100; a light that is off (no brightness attribute) gives
\* {on: false, brightness: 0}, one that is on with brightness 128 gives 50.
C5_QueryBrightness ==
    (ret.op = "query_device" /\ CalledDomain # "media_player") =>
        LET on == CalledEntity.state # "off"
            given == HasNumber(CalledAttributes, ATTR_BRIGHTNESS)
            b == IF given THEN CalledAttributes[ATTR_BRIGHTNESS].v
                 ELSE IF on THEN 255 ELSE 0
            result == ret.value.v
        IN  /\ ret.value.t = "return"
            /\ DOMAIN result = {"on", "online", "brightness"}
            /\ result.on = on
            /\ result.online = TRUE
            /\ result.brightness = PyInt((100 * b) \div 255)
            /\ b \in 0 .. 255 => result.brightness.v \in 0 .. 100
            /\ (CalledDomain = "light" /\ ~on /\ ~given)
                  => (result.on = FALSE /\ result.brightness = PyInt(0))
            /\ (CalledDomain = "light" /\ CalledEntity.state = "on" /\ given /\ b = 128)
                  => (result.on = TRUE /\ result.brightness = PyInt(50))

\* C5 witness: a light that is on with brightness 128 was queried as 50
C5_Witness ==
    /\ Returned("query_device")
    /\ CalledDomain = "light"
    /\ CalledEntity.state = "on"
    /\ HasNumber(CalledAttributes, ATTR_BRIGHTNESS)
    /\ CalledAttributes[ATTR_BRIGHTNESS] = PyInt(128)
    /\ ret.value.v = [on |-> TRUE, online |-> TRUE, brightness |-> PyInt(50)]

\* a number x as the fraction RationalN(x) / RationalD(x)
RationalN(x) ==
    IF x.t # "float" THEN IntOf(x)
    ELSE x.s * BigToInt(x.m) * (IF x.e > 0 THEN 2 ^ x.e ELSE 1)
RationalD(x) == IF x.t = "float" /\ x.e < 0 THEN 2 ^ (-x.e) ELSE 1

\* the media_player queries whose volume level is a number or absent
MediaQuery ==
    /\ ret.op = "query_device"
    /\ CalledDomain = "media_player"
    /\ Has(CalledAttributes, ATTR_MEDIA_VOLUME_LEVEL)
          => CalledAttributes[ATTR_MEDIA_VOLUME_LEVEL].t \in {"int", "float"}

\* the volume level of the queried media_player is a float
LevelIsFloat ==
    /\ Has(CalledAttributes, ATTR_MEDIA_VOLUME_LEVEL)
    /\ CalledAttributes[ATTR_MEDIA_VOLUME_LEVEL].t = "float"

\* the level is +inf (s = 1) or -inf (s = -1)
LevelIsInf(s) ==
    /\ LevelIsFloat
    /\ CalledAttributes[ATTR_MEDIA_VOLUME_LEVEL].k = "inf"
    /\ CalledAttributes[ATTR_MEDIA_VOLUME_LEVEL].s = s

\* the level is a finite number or absent
LevelFinite ==
    LevelIsFloat => CalledAttributes[ATTR_MEDIA_VOLUME_LEVEL].k = "finite"

\* the level is the float f
LevelIs(f) == LevelIsFloat /\ CalledAttributes[ATTR_MEDIA_VOLUME_LEVEL] = f

\* the level is v = vn/vd with numbers small enough that v * 255 is the same
\* in exact and in double arithmetic
LevelExact ==
    /\ LevelFinite
    /\ LevelIsFloat =>
          /\ Len(CalledAttributes[ATTR_MEDIA_VOLUME_LEVEL].m) <= 1
          /\ CalledAttributes[ATTR_MEDIA_VOLUME_LEVEL].e \in (-LimbBits) .. 0

\* the level v = vn/vd of the queried media_player (vd > 0), when LevelExact
LevelN ==
    IF Has(CalledAttributes, ATTR_MEDIA_VOLUME_LEVEL)
    THEN RationalN(CalledAttributes[ATTR_MEDIA_VOLUME_LEVEL])
    ELSE IF CalledEntity.state # "off" THEN 1 ELSE 0
LevelD ==
    IF Has(CalledAttributes, ATTR_MEDIA_VOLUME_LEVEL)
    THEN RationalD(CalledAttributes[ATTR_MEDIA_VOLUME_LEVEL])
    ELSE 1

\* v < 0 and v >= 0 (-0.0 is not below 0; nan is neither)
LevelNegative ==
    IF LevelExact THEN LevelN < 0
    ELSE /\ CalledAttributes[ATTR_MEDIA_VOLUME_LEVEL].k # "nan"
         /\ CalledAttributes[ATTR_MEDIA_VOLUME_LEVEL].s < 0
LevelNotNegative ==
    IF LevelExact THEN LevelN >= 0
    ELSE /\ CalledAttributes[ATTR_MEDIA_VOLUME_LEVEL].k # "nan"
         /\ CalledAttributes[ATTR_MEDIA_VOLUME_LEVEL].s > 0

\* n/d rounded to the nearest integer, halves to the even one (n >= 0, d > 0)
NearestEven(n, d) ==
    LET q == n \div d
        r == n % d
    IN  IF 2 * r > d \/ (2 * r = d /\ q % 2 = 1) THEN q + 1 ELSE q

\* floor(100 * round(min(1.0, v) * 255) / 255) for v >= 0
LevelPercent ==
    (100 * (IF LevelN >= LevelD THEN 255 ELSE NearestEven(255 * LevelN, LevelD))) \div 255

\* 100 * round(v * 255) / 255 truncated toward zero, for v < 0
NegativeLevelPercent ==
    -((100 * NearestEven(255 * (-LevelN), LevelD)) \div 255)

\* the queried entity without its brightness attribute
WithoutBrightness ==
    [CalledEntity EXCEPT !.attributes =
        [k \in DOMAIN CalledAttributes \ {ATTR_BRIGHTNESS} |-> CalledAttributes[k]]]

Discovery ==
    /\ ret.op = "entity_to_device"
    /\ Has(CalledAttributes, ATTR_SUPPORTED_FEATURES)
          => CalledAttributes[ATTR_SUPPORTED_FEATURES].t = "int"

\* those that returned a descriptor
Described == Discovery /\ ret.value.t = "return" /\ ret.value.v # PyNone

\* the supported-features bitmask, 0 when absent
Bitmask(attributes) ==
    IF Has(attributes, ATTR_SUPPORTED_FEATURES)
    THEN attributes[ATTR_SUPPORTED_FEATURES].v ELSE 0

\* the declared (flag, trait) pairs of a domain of the map, in declared order
DeclaredPairs(domain) ==
    IF CapabilityMap[domain][3] = PyNone THEN <<>> ELSE CapabilityMap[domain][3].v

\* the traits the declared mapping gives a domain under a bitmask
DeclaredTraits(domain, mask) ==
    LET chosen == SelectSeq(DeclaredPairs(domain), LAMBDA pair : BitAnd(pair[1], mask) # 0)
    IN  <<"action.devices.traits." \o CapabilityMap[domain][2]>>
        \o [i \in 1 .. Len(chosen) |-> "action.devices.traits." \o chosen[i][2]]

\* the traits of the descriptor of the called entity with its bitmask set to mask
TraitsUnder(mask) ==
    entity_to_device(MAPPING_COMPONENT,
        [CalledEntity EXCEPT !.attributes =
            (ATTR_SUPPORTED_FEATURES :> PyInt(mask)) @@ @]).value.v.traits

\* C7: entity_to_device returns None exactly for a domain that is no key of
\* the map (group, switch, fan, light, cover, media_player); otherwise the
\* descriptor has id = entityId, willReportState = false, the declared type
\* and the base trait followed, in declared order, by the traits whose flag
\* meets the bitmask (0 when absent); a bitmask with more bits set keeps
\* every trait.
C7_Descriptor ==
    Discovery =>
        LET domain == CalledDomain
            mask == Bitmask(CalledAttributes)
            device == ret.value.v
        IN  /\ ret.value.t = "return"
            /\ (device = PyNone) <=>
                  (domain \notin {"group", "switch", "fan", "light", "cover", "media_player"})
            /\ device # PyNone =>
                  /\ device.id = CalledEntity.entity_id
                  /\ device.willReportState = FALSE
                  /\ device.type = "action.devices.types." \o CapabilityMap[domain][1]
                  /\ device.traits = DeclaredTraits(domain, mask)
                  /\ \A more \in 0 .. MaxFeatures :
                        BitAnd(mask, more) = mask =>
                            \A i \in DOMAIN device.traits :
                                \E j \in DOMAIN TraitsUnder(more) :
                                    TraitsUnder(more)[j] = device.traits[i]

\* C7 witness: a light with the brightness and rgb bits set was described
\* with the three traits OnOff, Brightness, ColorSpectrum
C7_Witness ==
    /\ Described
    /\ CalledDomain = "light"
    /\ Bitmask(CalledAttributes) = 17
    /\ ret.value.v.traits = <<"action.devices.traits.OnOff",
                              "action.devices.traits.Brightness",
                              "action.devices.traits.ColorSpectrum">>

\* C8: on a supported domain, aliases that are a list become name.nicknames
\* verbatim without a warning; aliases that are present and no list are
\* dropped with a warning, the descriptor being complete all the same; absent
\* aliases give no nicknames and no warning.
C8_Aliases ==
    Described =>
        LET name == ret.value.v.name
            listed == Has(CalledAttributes, CONF_ALIASES)
                      /\ CalledAttributes[CONF_ALIASES].t = "list"
        IN  /\ listed =>
                  /\ Has(name, "nicknames")
                  /\ name["nicknames"] = CalledAttributes[CONF_ALIASES]
                  /\ ret.warnings = <<>>
            /\ (Has(CalledAttributes, CONF_ALIASES) /\ ~listed) =>
                  /\ ~Has(name, "nicknames")
                  /\ ret.warnings # <<>>
                  /\ DOMAIN ret.value.v = {"id", "name", "traits", "willReportState", "type"}
            /\ ~Has(CalledAttributes, CONF_ALIASES) =>
                  /\ ~Has(name, "nicknames")
                  /\ ret.warnings = <<>>

\* C9 as stated: name.name is the assistant name whenever that attribute is
\* present (with a value), otherwise the friendly name when that is present,
\* and unset when neither is; null and the empty string both count as unset.
C9_AssistantNameWhenPresent ==
    Described =>
        LET name == ret.value.v.name["name"]
            given(k) == Has(CalledAttributes, k) /\ CalledAttributes[k] # PyNone
            unset(x) == x \in {PyNone, PyStr("")}
            same(x, y) == x = y \/ (unset(x) /\ unset(y))
        IN  IF given(ATTR_GOOGLE_ASSISTANT_NAME)
            THEN same(name, CalledAttributes[ATTR_GOOGLE_ASSISTANT_NAME])
            ELSE IF given(CONF_FRIENDLY_NAME)
            THEN same(name, CalledAttributes[CONF_FRIENDLY_NAME])
            ELSE unset(name)

\* C9 amended: name.name is the assistant name whenever that attribute is
\* present and not empty (nor null); otherwise it is the friendly name when
\* that is present, and null when it is not; it is never derived from the
\* entityId.
C9_DisplayName ==
    Described =>
        LET name == ret.value.v.name["name"]
            filled(k) == /\ Has(CalledAttributes, k)
                         /\ CalledAttributes[k] \notin {PyNone, PyStr("")}
        IN  /\ Has(ret.value.v.name, "name")
            /\ IF filled(ATTR_GOOGLE_ASSISTANT_NAME)
               THEN name = CalledAttributes[ATTR_GOOGLE_ASSISTANT_NAME]
               ELSE IF Has(CalledAttributes, CONF_FRIENDLY_NAME)
               THEN name = CalledAttributes[CONF_FRIENDLY_NAME]
               ELSE name = PyNone
            /\ name \in {PyNone} \cup {CalledAttributes[k] : k \in DOMAIN CalledAttributes}

\* C9 witness: an empty assistant name beside a friendly name was described
\* under the friendly name
C9_Witness ==
    /\ Described
    /\ Has(CalledAttributes, ATTR_GOOGLE_ASSISTANT_NAME)
    /\ CalledAttributes[ATTR_GOOGLE_ASSISTANT_NAME] = PyStr("")
    /\ Has(CalledAttributes, CONF_FRIENDLY_NAME)
    /\ ret.value.v.name["name"] = PyStr("Kitchen Light")

\* what a call of op on entity returns when it is the only call ever made
CalledAlone(op, entity) ==
    CASE op = "entity_to_device" -> entity_to_device(CapabilityMap, entity)
      [] op = "query_device" -> [value |-> query_device(entity), warnings |-> <<>>]
      [] op = "determine_service" ->
            [value |-> determine_service(entity.entity_id, command, params),
             warnings |-> <<>>]

\* C10: every call, after any calls before it on the same or other
\* entities, leaves the map and every entity snapshot as they were and
\* returns what it returns when run alone on the same inputs; the same call
\* made twice in a row returns the same twice.
C10_CallsArePure ==
    [][ /\ registry' = registry
        /\ MAPPING_COMPONENT' = MAPPING_COMPONENT
        /\ ret'.value = CalledAlone(ret'.op, registry[ret'.idx]).value
        /\ ret'.warnings = CalledAlone(ret'.op, registry[ret'.idx]).warnings
        /\ (ret'.op = ret.op /\ ret'.idx = ret.idx) =>
              (ret'.value = ret.value /\ ret'.warnings = ret.warnings)
      ]_vars

\* C10 witness: the second of two distinct entities was queried after a
\* discovery call had logged
C10_Witness ==
    /\ Len(registry) = 2
    /\ registry[1] # registry[2]
    /\ ret.op = "query_device"
    /\ ret.idx = 2
    /\ Len(log) > 0

====
